---- MODULE Spec2Model ----
(***************************************************************************)
(* Model of the hardware-identity service of ghaf-givc:                    *)
(*   src/src/hwid_api/server.rs  HwIdServiceServer::get_hw_id              *)
(*   src/src/utils/tonic.rs      escalate                                  *)
(* The identifier slot is a tokio Mutex<Option<String>>; every call locks  *)
(* it, answers from the slot or reads /sys/class/net/<interface>/address,  *)
(* decodes and trims the bytes, stores and returns them.                   *)
(***************************************************************************)
EXTENDS Integers, Sequences, FiniteSets, TLC

\* ---------------------------------------------------------------- bounds
NumProcs == 3
MaxCalls == 4

Procs == 1..NumProcs
NoProc == 0
Interfaces == {"eth0", "wlan0"}

VARIABLES
    servers,     \* interfaces for which HwIdServiceServer::new was called
    identifier,  \* [Interfaces -> Option<String>]: the field `identifier`
    holder,      \* [Interfaces -> Procs \cup {NoProc}]: owner of the MutexGuard
    waiters,     \* [Interfaces -> Seq(Procs)]: tasks queued in lock().await (FIFO)
    pc,          \* [Procs -> position of the task inside get_hw_id]
    target,      \* [Procs -> Interfaces]: the instance (&self) of the task's call
    reads,       \* [Interfaces -> number of tokio::fs::read invocations]
    start,       \* [Procs -> number of calls that had ended when the task's call began]
    log,         \* the calls that have ended, in the order they ended
    escPc,       \* position inside escalate
    escReq,      \* inner value of the tonic::Request given to escalate
    escFun,      \* the handler: [Requests -> anyhow::Result<R>]
    escInvoked,  \* sequence of the arguments the handler was invoked with
    escOut,      \* value returned by escalate
    cliPc,       \* position of the client inside HwIdClient::get_id
    cliConnects, \* endpoint.connect() invocations of the get_id call in progress
    cliSent,     \* get_hw_id requests sent by the get_id call in progress
    cliLog       \* the get_id calls that have ended, in order

srvVars == <<servers, identifier, holder, waiters, pc, target, reads, start, log>>
escVars == <<escPc, escReq, escFun, escInvoked, escOut>>
cliVars == <<cliPc, cliConnects, cliSent, cliLog>>
vars == <<servers, identifier, holder, waiters, pc, target, reads, start, log,
          escPc, escReq, escFun, escInvoked, escOut,
          cliPc, cliConnects, cliSent, cliLog>>

\* ------------------------------------------------- Option<String>, Result
None == [some |-> FALSE, val |-> <<>>]
Some(v) == [some |-> TRUE, val |-> v]

\* tonic::Status: code, message and the error details attached to it
Status(code, message) == [code |-> code, message |-> message, details |-> <<>>]

\* ------------------------------------------------------- text conversion
\* char::is_whitespace (Unicode White_Space), used by str::trim
IsWhitespace(c) ==
    \/ c \in 9..13
    \/ c \in {32, 133, 160, 5760, 8232, 8233, 8239, 8287, 12288}
    \/ c \in 8192..8202

IsCont(b) == b \in 128..191

\* number of bytes of the UTF-8 sequence starting at bytes[i], 0 if ill-formed
Utf8Width(bytes, i) ==
    LET n  == Len(bytes)
        b0 == bytes[i]
        b1 == IF i + 1 <= n THEN bytes[i + 1] ELSE 0
        b2 == IF i + 2 <= n THEN bytes[i + 2] ELSE 0
        b3 == IF i + 3 <= n THEN bytes[i + 3] ELSE 0
    IN  IF b0 <= 127 THEN 1
        ELSE IF b0 \in 194..223 THEN (IF IsCont(b1) THEN 2 ELSE 0)
        ELSE IF b0 = 224 THEN (IF b1 \in 160..191 /\ IsCont(b2) THEN 3 ELSE 0)
        ELSE IF b0 \in (225..236) \cup {238, 239}
             THEN (IF IsCont(b1) /\ IsCont(b2) THEN 3 ELSE 0)
        ELSE IF b0 = 237 THEN (IF b1 \in 128..159 /\ IsCont(b2) THEN 3 ELSE 0)
        ELSE IF b0 = 240
             THEN (IF b1 \in 144..191 /\ IsCont(b2) /\ IsCont(b3) THEN 4 ELSE 0)
        ELSE IF b0 \in 241..243
             THEN (IF IsCont(b1) /\ IsCont(b2) /\ IsCont(b3) THEN 4 ELSE 0)
        ELSE IF b0 = 244
             THEN (IF b1 \in 128..143 /\ IsCont(b2) /\ IsCont(b3) THEN 4 ELSE 0)
        ELSE 0

\* the code point of the well-formed sequence of width w starting at bytes[i]
CodePoint(bytes, i, w) ==
    IF w = 1 THEN bytes[i]
    ELSE IF w = 2 THEN (bytes[i] - 192) * 64 + (bytes[i + 1] - 128)
    ELSE IF w = 3 THEN (bytes[i] - 224) * 4096 + (bytes[i + 1] - 128) * 64
                       + (bytes[i + 2] - 128)
    ELSE (bytes[i] - 240) * 262144 + (bytes[i + 1] - 128) * 4096
         + (bytes[i + 2] - 128) * 64 + (bytes[i + 3] - 128)

RECURSIVE DecodeFrom(_, _, _)
DecodeFrom(bytes, i, acc) ==
    IF i > Len(bytes) THEN [ok |-> TRUE, val |-> acc, err |-> ""]
    ELSE LET w == Utf8Width(bytes, i)
         IN  IF w = 0 THEN [ok |-> FALSE, val |-> <<>>, err |-> "invalid utf-8 sequence"]
             ELSE DecodeFrom(bytes, i + w, Append(acc, CodePoint(bytes, i, w)))

\* String::from_utf8: the text as a sequence of code points, or FromUtf8Error
FromUtf8(bytes) == DecodeFrom(bytes, 1, <<>>)

RECURSIVE TrimStart(_)
TrimStart(s) ==
    IF s # <<>> /\ IsWhitespace(Head(s)) THEN TrimStart(Tail(s)) ELSE s

RECURSIVE TrimEnd(_)
TrimEnd(s) ==
    IF s # <<>> /\ IsWhitespace(s[Len(s)]) THEN TrimEnd(SubSeq(s, 1, Len(s) - 1)) ELSE s

\* faulty variant: only the leading whitespace is removed
TrimNoEnd(s) == TrimStart(s)

\* str::trim followed by to_string
Trim(s) == TrimEnd(TrimStart(s))

\* ------------------------------------------------------ the address file
FileErr(e) == [err |-> e, bytes |-> <<>>]
FileOf(bytes) == [err |-> "", bytes |-> bytes]

\* states in which a read can find /sys/class/net/<interface>/address
Files ==
    { FileErr("NotFound"),                 \* interface not there (yet)
      FileOf(<<255, 97>>),                 \* not valid UTF-8
      FileOf(<<97, 97, 10>>),              \* "aa\n"
      FileOf(<<32, 98, 32, 98, 194, 160>>) \* " b b" followed by U+00A0
    }

\* tokio::fs::read(path).await : Ok(bytes) or io::Error
FsRead(f) ==
    IF f.err # "" THEN [ok |-> FALSE, val |-> <<>>, err |-> f.err]
    ELSE [ok |-> TRUE, val |-> f.bytes, err |-> ""]

\* ------------------------------------------------------------ get_hw_id
\* faulty variant: the probe failure reported with the caller-fault code
ToTonicStatusInvalidArgument(e) == Status("InvalidArgument", e)

\* the closure of to_tonic: |e| Status::internal(e.to_string())
ToTonicStatus(e) == Status("Internal", e)

\* Result<T, E>::to_tonic
ToTonic(r) ==
    IF r.ok THEN [ok |-> TRUE, val |-> r.val, status |-> Status("Ok", "")]
    ELSE [ok |-> FALSE, val |-> <<>>, status |-> ToTonicStatus(r.err)]

\* RResult<HwIdResponse>; Dropped stands for a call whose future was dropped
OkResponse(id) == [tag |-> "Ok", identifier |-> id, status |-> Status("Ok", "")]
ErrResponse(st) == [tag |-> "Err", identifier |-> <<>>, status |-> st]
Dropped == [tag |-> "Cancelled", identifier |-> <<>>, status |-> Status("Cancelled", "")]

\* faulty variant: the decoded text stored and returned without trim()
NormalizeNoTrim(raw) ==
    LET s == ToTonic(FromUtf8(raw))
    IN  IF s.ok THEN OkResponse(s.val) ELSE ErrResponse(s.status)

\* String::from_utf8(raw).to_tonic()?.trim().to_string()
Normalize(raw) ==
    LET s == ToTonic(FromUtf8(raw))
    IN  IF s.ok THEN OkResponse(Trim(s.val)) ELSE ErrResponse(s.status)

\* the None arm: the value `id` of the read result r, or the early return of `?`
Compute(r) ==
    LET raw == ToTonic(r)
    IN  IF raw.ok THEN Normalize(raw.val) ELSE ErrResponse(raw.status)

\* faulty variant: the stored value is never used, every call recomputes
SlotHitNever(slot) == FALSE

\* match guard.as_mut() { Some(id) => ..., None => ... }
SlotHit(slot) == slot.some

\* faulty variant: the computed value is returned but never stored
SlotAfterNoStore(slot, out) == slot

\* faulty variant: a failed read is remembered as an empty identifier
SlotAfterPoisoned(slot, out) ==
    IF out.tag = "Ok" THEN Some(out.identifier) ELSE Some(<<>>)

\* *guard = Some(id.clone()), reached only when neither `?` returned early
SlotAfter(slot, out) == IF out.tag = "Ok" THEN Some(out.identifier) ELSE slot

\* faulty variant: the lock is handed over only when a single task waits
CanAcquireLostWakeup(k, p) ==
    /\ holder[k] = NoProc
    /\ waiters[k] = <<p>>

\* faulty variant: one lock shared by all instances instead of one per slot
CanAcquireGlobal(k, p) ==
    /\ \A j \in Interfaces : holder[j] = NoProc
    /\ waiters[k] # <<>>
    /\ Head(waiters[k]) = p

\* faulty variant: the lock is granted while another task still holds it
CanAcquireNoExclusion(k, p) ==
    /\ waiters[k] # <<>>
    /\ Head(waiters[k]) = p

\* self.identifier.lock().await resolves for p: tokio's Mutex is free and p is
\* the first of its FIFO queue
CanAcquire(k, p) ==
    /\ holder[k] = NoProc
    /\ waiters[k] # <<>>
    /\ Head(waiters[k]) = p

Without(s, p) == SelectSeq(s, LAMBDA x : x # p)

\* the result of a read nobody received (cache hit, dropped future)
NoRead == [ok |-> FALSE, val |-> <<>>, err |-> "no read"]

\* the call of p ends: it is appended to the log with what it did
Finish(p, res, didRead, raw) ==
    /\ log' = Append(log, [key |-> target[p], start |-> start[p],
                           res |-> res, read |-> didRead, raw |-> raw])
    /\ pc' = [pc EXCEPT ![p] = "idle"]
    /\ start' = [start EXCEPT ![p] = 0]

\* calls begun so far: the ended ones and the ones in progress
Started == Len(log) + Cardinality({p \in Procs : pc[p] # "idle"})

\* a request arrives at the instance for interface k; the task reaches lock().await
Call(p, k) ==
    /\ pc[p] = "idle"
    /\ k \in servers
    /\ Started < MaxCalls
    /\ pc' = [pc EXCEPT ![p] = "lock"]
    /\ target' = [target EXCEPT ![p] = k]
    /\ start' = [start EXCEPT ![p] = Len(log)]
    /\ waiters' = [waiters EXCEPT ![k] = Append(@, p)]
    /\ UNCHANGED <<servers, identifier, holder, reads, log>>
    /\ UNCHANGED <<escVars, cliVars>>

\* let mut guard = self.identifier.lock().await;
Acquire(p) ==
    LET k == target[p]
    IN  /\ pc[p] = "lock"
        /\ CanAcquire(k, p)
        /\ holder' = [holder EXCEPT ![k] = p]
        /\ waiters' = [waiters EXCEPT ![k] = Without(@, p)]
        /\ pc' = [pc EXCEPT ![p] = "locked"]
        /\ UNCHANGED <<servers, identifier, target, reads, start, log>>
        /\ UNCHANGED <<escVars, cliVars>>

\* Some(id) => id.clone(); Ok(Response::new(..)); the guard is dropped
MatchSome(p) ==
    LET k == target[p]
    IN  /\ pc[p] = "locked"
        /\ SlotHit(identifier[k])
        /\ Finish(p, OkResponse(identifier[k].val), FALSE, NoRead)
        /\ holder' = [holder EXCEPT ![k] = NoProc]
        /\ UNCHANGED <<servers, identifier, waiters, target, reads>>
        /\ UNCHANGED <<escVars, cliVars>>

\* None => tokio::fs::read(..) is started and awaited, the guard still held
MatchNone(p) ==
    LET k == target[p]
    IN  /\ pc[p] = "locked"
        /\ ~SlotHit(identifier[k])
        /\ reads' = [reads EXCEPT ![k] = @ + 1]
        /\ pc' = [pc EXCEPT ![p] = "read"]
        /\ UNCHANGED <<servers, identifier, holder, waiters, target, start, log>>
        /\ UNCHANGED <<escVars, cliVars>>

\* faulty variant: a failed read is tried again inside the same call
ReadDoneRetry(p, f) ==
    LET k   == target[p]
        r   == FsRead(f)
        out == Compute(r)
    IN  /\ pc[p] = "read"
        /\ IF out.tag = "Err"
           THEN /\ reads' = [reads EXCEPT ![k] = @ + 1]
                /\ UNCHANGED <<servers, identifier, holder, waiters, pc, target, start, log>>
           ELSE /\ identifier' = [identifier EXCEPT ![k] = SlotAfter(@, out)]
                /\ Finish(p, out, TRUE, r)
                /\ holder' = [holder EXCEPT ![k] = NoProc]
                /\ UNCHANGED <<servers, waiters, target, reads>>
        /\ UNCHANGED <<escVars, cliVars>>

\* the read completes, having found the address file in state f:
\* `?`, from_utf8, `?`, trim, store, respond, drop the guard
ReadDone(p, f) ==
    LET k   == target[p]
        r   == FsRead(f)
        out == Compute(r)
    IN  /\ pc[p] = "read"
        /\ identifier' = [identifier EXCEPT ![k] = SlotAfter(@, out)]
        /\ Finish(p, out, TRUE, r)
        /\ holder' = [holder EXCEPT ![k] = NoProc]
        /\ UNCHANGED <<servers, waiters, target, reads>>
        /\ UNCHANGED <<escVars, cliVars>>

\* faulty variant: a reader's guard outlives its dropped future
CancelKeepsLock(p) ==
    LET k == target[p]
    IN  /\ pc[p] \in {"lock", "read"}
        /\ waiters' = [waiters EXCEPT ![k] = Without(@, p)]
        /\ Finish(p, Dropped, pc[p] = "read", NoRead)
        /\ UNCHANGED <<servers, identifier, holder, target, reads>>
        /\ UNCHANGED <<escVars, cliVars>>

\* the request future is dropped at one of its await points (client gone,
\* timeout): a queued waiter leaves the queue, a reader's guard is dropped
Cancel(p) ==
    LET k == target[p]
    IN  /\ pc[p] \in {"lock", "read"}
        /\ waiters' = [waiters EXCEPT ![k] = Without(@, p)]
        /\ holder' = [holder EXCEPT ![k] = IF pc[p] = "read" THEN NoProc ELSE @]
        /\ Finish(p, Dropped, pc[p] = "read", NoRead)
        /\ UNCHANGED <<servers, identifier, target, reads>>
        /\ UNCHANGED <<escVars, cliVars>>

\* ------------------------------------------------------------- escalate
\* inner values T of the tonic::Request, payloads R of the response
Requests == {1, 2}
Payloads == {10, 20}

\* anyhow::Error values a handler can return, named by their cause
HandlerErrors == {"io: NotFound", "io: PermissionDenied", "invalid utf-8 sequence",
                  "transport: connect failed", "request field missing"}

\* anyhow::Result<R>
HandlerResults ==
    {[ok |-> TRUE, val |-> r, err |-> ""] : r \in Payloads}
        \cup {[ok |-> FALSE, val |-> 0, err |-> e] : e \in HandlerErrors}

NoOut == [tag |-> "None", payload |-> 0, status |-> Status("", "")]

\* faulty variant: the handler's error is swallowed and a default response returned
EscalateMatchSwallow(result) ==
    [tag |-> "Ok", payload |-> result.val, status |-> Status("Ok", "")]

\* faulty variant: the response is built from a default payload, not from res
EscalateMatchDefaultPayload(result) ==
    IF result.ok
    THEN [tag |-> "Ok", payload |-> 0, status |-> Status("Ok", "")]
    ELSE [tag |-> "Err", payload |-> 0,
          status |-> Status("InvalidArgument", "request contains invalid arguments")]

\* faulty variant: the text of the handler's error is put into the message
EscalateMatchLeaky(result) ==
    IF result.ok
    THEN [tag |-> "Ok", payload |-> result.val, status |-> Status("Ok", "")]
    ELSE [tag |-> "Err", payload |-> 0, status |-> Status("InvalidArgument", result.err)]

\* match result { Ok(res) => Ok(Response::new(res)), Err(any) => Err(status) }
EscalateMatch(result) ==
    IF result.ok
    THEN [tag |-> "Ok", payload |-> result.val, status |-> Status("Ok", "")]
    ELSE [tag |-> "Err", payload |-> 0,
          status |-> Status("InvalidArgument", "request contains invalid arguments")]

\* fun(req.into_inner()) is called and its future awaited
EscInvoke ==
    /\ escPc = "start"
    /\ escInvoked' = Append(escInvoked, escReq)
    /\ escPc' = "await"
    /\ UNCHANGED <<escReq, escFun, escOut>>
    /\ UNCHANGED <<srvVars, cliVars>>

\* the handler's future completes; the match builds the value escalate returns
EscReturn ==
    /\ escPc = "await"
    /\ escOut' = EscalateMatch(escFun[escInvoked[Len(escInvoked)]])
    /\ escPc' = "done"
    /\ UNCHANGED <<escReq, escFun, escInvoked>>
    /\ UNCHANGED <<srvVars, cliVars>>

EscIdle ==
    /\ escPc = "off"
    /\ escReq = 0
    /\ escFun = <<>>
    /\ escInvoked = <<>>
    /\ escOut = NoOut

\* ---------------------------------------------------- HwIdClient::get_id
\* bound on the get_id calls the client makes
MaxGetIds == 3

\* faults of the transport endpoint's connect()
ConnectErrors == {"name resolution failed", "connection refused", "handshake failed"}

\* self.endpoint.connect().await : the channel or an error
ConnectResults ==
    {[ok |-> TRUE, err |-> ""]} \cup {[ok |-> FALSE, err |-> e] : e \in ConnectErrors}

\* what the server's get_hw_id can answer to the request
RpcResponses == {Compute(FsRead(f)) : f \in Files}

NoStatus == Status("", "")

\* anyhow::Error made by `?` from the error of connect() / from a tonic::Status
AnyhowFromConnect(e) == [from |-> "connect", text |-> e, status |-> NoStatus]
AnyhowFromStatus(st) == [from |-> "status", text |-> st.message, status |-> st]
NoError == [from |-> "", text |-> "", status |-> NoStatus]

\* anyhow::Result<String>
GetIdOk(id) == [tag |-> "Ok", identifier |-> id, error |-> NoError]
GetIdErr(e) == [tag |-> "Err", identifier |-> <<>>, error |-> e]

\* get_id returns: the call is logged with what it did
CliFinish(c, res) ==
    /\ cliLog' = Append(cliLog, [connects |-> cliConnects, sent |-> cliSent,
                                 conn |-> c, res |-> res])
    /\ cliPc' = "idle"
    /\ cliConnects' = 0
    /\ cliSent' = 0

\* get_id is called: the request is built, connect() calls endpoint.connect()
GetId ==
    /\ cliPc = "idle"
    /\ Len(cliLog) < MaxGetIds
    /\ cliPc' = "connect"
    /\ cliConnects' = 1
    /\ cliSent' = 0
    /\ UNCHANGED cliLog
    /\ UNCHANGED <<srvVars, escVars>>

\* faulty variant: a failed connect is tried again before giving up
ConnectDoneRetry(c) ==
    /\ cliPc = "connect"
    /\ IF c.ok
       THEN /\ cliPc' = "rpc"
            /\ cliSent' = cliSent + 1
            /\ UNCHANGED <<cliConnects, cliLog>>
       ELSE IF cliConnects < 2
            THEN /\ cliConnects' = cliConnects + 1
                 /\ UNCHANGED <<cliPc, cliSent, cliLog>>
            ELSE CliFinish(c, GetIdErr(AnyhowFromConnect(c.err)))
    /\ UNCHANGED <<srvVars, escVars>>

\* endpoint.connect() completes with c: `?` returns its error, else the
\* client is built on the channel and get_hw_id(request) is sent
ConnectDone(c) ==
    /\ cliPc = "connect"
    /\ IF c.ok
       THEN /\ cliPc' = "rpc"
            /\ cliSent' = cliSent + 1
            /\ UNCHANGED <<cliConnects, cliLog>>
       ELSE CliFinish(c, GetIdErr(AnyhowFromConnect(c.err)))
    /\ UNCHANGED <<srvVars, escVars>>

\* the response r arrives: `?` returns the Status as an error, else the
\* identifier of the response is returned
RpcDone(r) ==
    /\ cliPc = "rpc"
    /\ CliFinish([ok |-> TRUE, err |-> ""],
                 IF r.tag = "Ok" THEN GetIdOk(r.identifier)
                 ELSE GetIdErr(AnyhowFromStatus(r.status)))
    /\ UNCHANGED <<srvVars, escVars>>

\* HwIdClient::new(endpoint); no get_id call yet
CliIdle ==
    /\ cliPc = "idle"
    /\ cliConnects = 0
    /\ cliSent = 0
    /\ cliLog = <<>>

\* ---------------------------------------------------- the service alone
SrvIdle ==
    /\ identifier = [k \in Interfaces |-> None]
    /\ holder = [k \in Interfaces |-> NoProc]
    /\ waiters = [k \in Interfaces |-> <<>>]
    /\ pc = [p \in Procs |-> "idle"]
    /\ target = [p \in Procs |-> "eth0"]
    /\ start = [p \in Procs |-> 0]
    /\ reads = [k \in Interfaces |-> 0]
    /\ log = <<>>

\* HwIdServiceServer::new(interface) for one interface; nothing has run yet
Init ==
    /\ servers = {"eth0"}
    /\ SrvIdle
    /\ EscIdle
    /\ CliIdle

Next ==
    \/ \E p \in Procs, k \in Interfaces : Call(p, k)
    \/ \E p \in Procs : Acquire(p)
    \/ \E p \in Procs : MatchSome(p)
    \/ \E p \in Procs : MatchNone(p)
    \/ \E p \in Procs, f \in Files : ReadDone(p, f)
    \/ \E p \in Procs : Cancel(p)

Spec == Init /\ [][Next]_vars

\* ------------------------------------------- two instances, two interfaces
\* bound on the calls made in total when both instances serve
MaxKeyCalls == 2

\* HwIdServiceServer::new was called for each interface
KeysInit ==
    /\ servers = Interfaces
    /\ SrvIdle
    /\ EscIdle
    /\ CliIdle

KeysCall(p, k) ==
    /\ Started < MaxKeyCalls
    /\ Call(p, k)

KeysNext ==
    \/ \E p \in Procs, k \in Interfaces : KeysCall(p, k)
    \/ \E p \in Procs : Acquire(p)
    \/ \E p \in Procs : MatchSome(p)
    \/ \E p \in Procs : MatchNone(p)
    \/ \E p \in Procs, f \in Files : ReadDone(p, f)
    \/ \E p \in Procs : Cancel(p)

KeysSpec == KeysInit /\ [][KeysNext]_vars

\* ------------------------------------------------------- escalate alone
\* escalate(req, fun) is called with any request and any handler
EscInit ==
    /\ servers = {}
    /\ SrvIdle
    /\ escPc = "start"
    /\ escReq \in Requests
    /\ escFun \in [Requests -> HandlerResults]
    /\ escInvoked = <<>>
    /\ escOut = NoOut
    /\ CliIdle

EscNext ==
    \/ EscInvoke
    \/ EscReturn

EscSpec == EscInit /\ [][EscNext]_vars

\* ------------------------------------------- the service, fairly scheduled
\* bound on the calls made in a fairly scheduled run
MaxLiveCalls == 3

LiveCall(p, k) ==
    /\ Started < MaxLiveCalls
    /\ Call(p, k)

LiveNext ==
    \/ \E p \in Procs, k \in Interfaces : LiveCall(p, k)
    \/ \E p \in Procs : Acquire(p)
    \/ \E p \in Procs : MatchSome(p)
    \/ \E p \in Procs : MatchNone(p)
    \/ \E p \in Procs, f \in Files : ReadDone(p, f)
    \/ \E p \in Procs : Cancel(p)

\* the runtime keeps polling a task that can go on: a free lock is handed to
\* the first waiter, the holder runs on to its next await, and every read
\* completes; requests may stop arriving and futures need never be dropped
LiveSpec ==
    /\ Init
    /\ [][LiveNext]_vars
    /\ \A p \in Procs :
          /\ WF_vars(Acquire(p))
          /\ WF_vars(MatchSome(p))
          /\ WF_vars(MatchNone(p))
          /\ WF_vars(\E f \in Files : ReadDone(p, f))

\* ------------------------------------------- every short address file
\* bound on the length in bytes of the address file
MaxLen == 3

\* line feed, space, 'a', and the two bytes of U+00A0 (each ill-formed alone)
Alphabet == {10, 32, 97, 160, 194}

\* what a read can find: no file, or any content of at most MaxLen bytes
NormFiles ==
    {FileErr("NotFound")}
        \cup {FileOf(b) : b \in UNION {[1..n -> Alphabet] : n \in 0..MaxLen}}

NormInit ==
    /\ servers = {"eth0"}
    /\ SrvIdle
    /\ EscIdle
    /\ CliIdle

\* requests arrive one after the other, up to the first failure or cache hit
NormCall(p, k) ==
    /\ \A q \in Procs : pc[q] = "idle"
    /\ \A i \in 1..Len(log) : log[i].read /\ log[i].res.tag = "Ok"
    /\ Call(p, k)

NormNext ==
    \/ \E p \in Procs, k \in Interfaces : NormCall(p, k)
    \/ \E p \in Procs : Acquire(p)
    \/ \E p \in Procs : MatchSome(p)
    \/ \E p \in Procs : MatchNone(p)
    \/ \E p \in Procs, f \in NormFiles : ReadDone(p, f)

NormSpec == NormInit /\ [][NormNext]_vars

\* --------------------------------------------------------- client alone
CliInit ==
    /\ servers = {}
    /\ SrvIdle
    /\ EscIdle
    /\ CliIdle

CliNext ==
    \/ GetId
    \/ \E c \in ConnectResults : ConnectDone(c)
    \/ \E r \in RpcResponses : RpcDone(r)

CliSpec == CliInit /\ [][CliNext]_vars

\* =============================================================== claims
\* indices of the ended calls made on the instance for interface k
OnKey(k) == {i \in 1..Len(log) : log[i].key = k}

\* tasks whose read on the instance for interface k is in progress
Readers(k) == {p \in Procs : pc[p] = "read" /\ target[p] = k}

\* ended calls on k that read the file and got Ok: the successful computations
Computed(k) == {i \in OnKey(k) : log[i].read /\ log[i].res.tag = "Ok"}

\* ended calls on k whose read or decoding failed
Failed(k) == {i \in OnKey(k) : log[i].read /\ log[i].res.tag = "Err"}

\* C1: when no call on an instance has failed or been dropped, the calls made
\* on it (concurrently or not) caused exactly one read in total, and all of
\* them returned the identical identifier.
C1_SingleFlightOnSuccess ==
    \A k \in servers :
        (\A i \in OnKey(k) : log[i].res.tag = "Ok") =>
            /\ reads[k] <= 1
            /\ (OnKey(k) # {} => reads[k] = 1)
            /\ \A i, j \in OnKey(k) : log[i].res.identifier = log[j].res.identifier

\* every task made a call before any call had ended, all returned Ok, one read
C1_Witness ==
    /\ Len(log) = NumProcs
    /\ \A i \in 1..Len(log) : log[i].start = 0 /\ log[i].res.tag = "Ok"
    /\ reads["eth0"] = 1

\* C2: a failing read or decoding leaves the slot empty; a call that finds the
\* slot empty always reads the file, also after earlier failures.
C2_NoNegativeCaching ==
    [][ /\ (Len(log') > Len(log) /\ log'[Len(log')].res.tag = "Err") =>
              /\ log'[Len(log')].read
              /\ identifier'[log'[Len(log')].key] = None
        /\ \A p \in Procs :
              (pc[p] = "locked" /\ ~identifier[target[p]].some /\ pc'[p] # "locked") =>
                  /\ pc'[p] = "read"
                  /\ reads'[target[p]] = reads[target[p]] + 1
      ]_vars

\* two calls in sequence: the first read and failed, the second began after
\* that, read again and succeeded
C2_Witness ==
    \E i \in 1..Len(log) :
        /\ i + 1 <= Len(log)
        /\ log[i].read /\ log[i].res.tag = "Err"
        /\ log[i + 1].start = i
        /\ log[i + 1].read /\ log[i + 1].res.tag = "Ok"
        /\ reads["eth0"] = 2

\* C3: once the slot holds a value there has been exactly one successful read,
\* no read was started after it, none is in progress, and every call ended
\* since returned the stored value without reading.
C3_IdempotentMemoization ==
    \A k \in servers :
        identifier[k].some =>
            /\ Cardinality(Computed(k)) = 1
            /\ Readers(k) = {}
            /\ \A s \in Computed(k) :
                  /\ reads[k] = Cardinality({i \in OnKey(k) : i <= s /\ log[i].read})
                  /\ \A j \in OnKey(k) :
                        (j > s /\ log[j].res.tag # "Cancelled") =>
                            /\ ~log[j].read
                            /\ log[j].res = OkResponse(identifier[k].val)

\* a value was computed and two later calls began after that and were served
C3_Witness ==
    \E s \in Computed("eth0") :
        /\ Cardinality({j \in OnKey("eth0") :
                           log[j].start >= s /\ log[j].res.tag = "Ok"}) >= 2
        /\ reads["eth0"] = 1

\* C4: a slot holding Some(v) holds Some(v) in every later state, and at most
\* one successful computation is ever stored per instance.
C4_WriteOnceSlot ==
    /\ [][\A k \in Interfaces : identifier[k].some => identifier'[k] = identifier[k]]_vars
    /\ [](\A k \in Interfaces :
             /\ Cardinality(Computed(k)) <= 1
             /\ (identifier[k].some <=> Computed(k) # {}))

\* the slot is set, a later call was dropped while queued and another is
\* holding the lock on the set slot
C4_Witness ==
    /\ identifier["eth0"].some
    /\ \E s \in Computed("eth0") :
          \E j \in OnKey("eth0") : j > s /\ log[j].res.tag = "Cancelled"
    /\ \E p \in Procs : pc[p] = "locked"

C6_CancelledReadIsNotRepeated ==
    \A k \in servers :
        \A i \in OnKey(k) :
            (log[i].res.tag = "Cancelled" /\ log[i].read) =>
                /\ \A j \in OnKey(k) : (j > i /\ log[j].start < i) => ~log[j].read
                /\ \A p \in Readers(k) : start[p] >= i

\* tonic::Code values other than Ok
FailureCodes ==
    {"Cancelled", "Unknown", "InvalidArgument", "DeadlineExceeded", "NotFound",
     "AlreadyExists", "PermissionDenied", "ResourceExhausted", "FailedPrecondition",
     "Aborted", "OutOfRange", "Unimplemented", "Internal", "Unavailable",
     "DataLoss", "Unauthenticated"}

\* C7: when the handler returns an error, escalate returns Err with a Status
\* (a failure code, no content of the handler's error); it returns Ok exactly
\* when the handler returned Ok.
C7_ErrorAdaptationTotality ==
    escPc = "done" =>
        LET h == escFun[escReq]
        IN  /\ ~h.ok =>
                  /\ escOut.tag = "Err"
                  /\ escOut.status.code \in FailureCodes
                  /\ escOut.status.message # h.err
                  /\ escOut.payload = 0
            /\ (escOut.tag = "Ok") <=> h.ok

\* escalate has returned for a handler that failed
C7_Witness ==
    /\ escPc = "done"
    /\ ~escFun[escReq].ok
    /\ escOut.tag = "Err"

\* handler errors that are faults of the server, not of the request
ServerFault(e) ==
    e \in {"io: NotFound", "io: PermissionDenied", "invalid utf-8 sequence",
           "transport: connect failed"}

\* the code that tells the caller its request was malformed
ClientFaultCode == "InvalidArgument"

\* C8 as claimed: a failure caused by a server-side fault is never reported
\* with the code used for a malformed request, neither by escalate nor by
\* get_hw_id.
C8_CodesSeparateFaults ==
    /\ (escPc = "done" /\ ~escFun[escReq].ok /\ ServerFault(escFun[escReq].err))
           => escOut.status.code # ClientFaultCode
    /\ \A i \in 1..Len(log) :
           log[i].res.tag = "Err" => log[i].res.status.code # ClientFaultCode

\* C9: a call whose read failed, or read bytes that are not UTF-8, returned an
\* error Status, and every error Status of get_hw_id has the code Internal.
C9_ProbeFailuresAreInternal ==
    \A i \in 1..Len(log) :
        /\ ( /\ log[i].read
             /\ log[i].res.tag # "Cancelled"
             /\ (~log[i].raw.ok \/ ~FromUtf8(log[i].raw.val).ok) )
           => log[i].res.tag = "Err"
        /\ log[i].res.tag = "Err" => log[i].res.status.code = "Internal"

\* one call failed on the read itself, another on the decoding
C9_Witness ==
    /\ \E i \in 1..Len(log) : log[i].read /\ log[i].res.tag = "Err" /\ ~log[i].raw.ok
    /\ \E i \in 1..Len(log) :
          log[i].read /\ log[i].res.tag = "Err" /\ log[i].raw.ok

\* C10: all successful responses of an instance carry one identifier, which is
\* the whole decoded and trimmed content of one successful read; the slot holds
\* that identifier or nothing.
C10_ConsistentValue ==
    \A k \in servers :
        LET oks == {i \in OnKey(k) : log[i].res.tag = "Ok"}
        IN  /\ \A i, j \in oks : log[i].res.identifier = log[j].res.identifier
            /\ \A i \in oks :
                  \E s \in OnKey(k) :
                      /\ log[s].read /\ log[s].raw.ok
                      /\ FromUtf8(log[s].raw.val).ok
                      /\ log[i].res.identifier = Trim(FromUtf8(log[s].raw.val).val)
                      /\ identifier[k] = Some(log[i].res.identifier)
            /\ (~identifier[k].some => oks = {})
            /\ (identifier[k].some => oks # {})

\* three calls were answered with the text of a read whose bytes needed trimming
C10_Witness ==
    /\ Cardinality({i \in OnKey("eth0") : log[i].res.tag = "Ok"}) >= 3
    /\ \E s \in Computed("eth0") :
          FromUtf8(log[s].raw.val).val # log[s].res.identifier

\* tasks that are between acquiring the lock of instance k and releasing it
Inside(k) == {p \in Procs : pc[p] \in {"locked", "read"} /\ target[p] = k}

\* C11: at most one task per instance is between acquiring the identifier lock
\* and releasing it, and it is the lock's owner; so at most one read is in
\* progress, and the slot is written only by the owner whose read completes.
C11_MutualExclusion ==
    /\ [](\A k \in Interfaces :
             /\ Cardinality(Inside(k)) <= 1
             /\ Cardinality(Readers(k)) <= 1
             /\ \A p \in Inside(k) : holder[k] = p
             /\ (holder[k] # NoProc => holder[k] \in Inside(k)))
    /\ [][\A k \in Interfaces :
             identifier'[k] # identifier[k] =>
                 /\ holder[k] # NoProc
                 /\ pc[holder[k]] = "read"
                 /\ pc'[holder[k]] = "idle"
                 /\ holder'[k] = NoProc]_vars

\* one task is reading under the lock while the two others wait in the queue
C11_Witness ==
    /\ Cardinality(Readers("eth0")) = 1
    /\ Len(waiters["eth0"]) = NumProcs - 1
    /\ \A p \in Readers("eth0") : holder["eth0"] = p

\* C12: a read is started only by the lock's owner finding the slot empty, one
\* at a time; a task whose read ended leaves the call at once, and the step in
\* which a call ends, failed or not, starts no read: no retry inside a call.
C12_NoRetryInsideCall ==
    [][\A k \in Interfaces :
          /\ reads'[k] \in {reads[k], reads[k] + 1}
          /\ reads'[k] = reads[k] + 1 =>
                \E p \in Procs :
                    /\ target[p] = k /\ holder[k] = p
                    /\ pc[p] = "locked" /\ pc'[p] = "read"
                    /\ ~identifier[k].some
          /\ \A p \in Procs :
                (pc[p] = "read" /\ target[p] = k) =>
                    /\ pc'[p] \in {"read", "idle"}
                    /\ reads'[k] = reads[k]
          /\ Len(log') > Len(log) => reads' = reads]_vars

\* a call read once, failed and ended; nothing is being read
C12_Witness ==
    /\ Failed("eth0") # {}
    /\ Readers("eth0") = {}
    /\ reads["eth0"] = Cardinality({i \in OnKey("eth0") : log[i].read})

\* C13: escalate invokes the handler exactly once, with the request's inner
\* value, returns nothing before the handler has completed, and for a handler
\* result Ok(r) returns Ok with the payload r unchanged.
C13_HandlerOnceResultUnchanged ==
    /\ escPc = "start" => (escInvoked = <<>> /\ escOut = NoOut)
    /\ escPc = "await" => (escInvoked = <<escReq>> /\ escOut = NoOut)
    /\ escPc = "done" =>
          /\ escInvoked = <<escReq>>
          /\ escFun[escReq].ok =>
                /\ escOut.tag = "Ok"
                /\ escOut.payload = escFun[escReq].val

\* escalate returned Ok(r) for a handler that answers the other request differently
C13_Witness ==
    /\ escPc = "done"
    /\ escFun[escReq].ok
    /\ escOut.payload = escFun[escReq].val
    /\ \E q \in Requests : escFun[q] # escFun[escReq]

\* the one Status escalate builds for an error
EscalateStatus == Status("InvalidArgument", "request contains invalid arguments")

\* C14: the Status escalate returns for a handler error is the same for every
\* error: code InvalidArgument, the fixed message, no details; nothing of the
\* error's content is in it.
C14_StatusIndependentOfError ==
    /\ (escPc = "done" /\ ~escFun[escReq].ok) =>
          /\ escOut.status = EscalateStatus
          /\ escOut.status.details = <<>>
          /\ escOut.status.message # escFun[escReq].err
    /\ \A e1, e2 \in HandlerErrors :
          EscalateMatch([ok |-> FALSE, val |-> 0, err |-> e1])
              = EscalateMatch([ok |-> FALSE, val |-> 0, err |-> e2])

\* escalate returned for a failed handler that fails differently on the other request
C14_Witness ==
    /\ escPc = "done"
    /\ ~escFun[escReq].ok
    /\ \E q \in Requests : ~escFun[q].ok /\ escFun[q].err # escFun[escReq].err
    /\ escOut.status = EscalateStatus

\* C15: whether a call can take its lock and go on depends on its own
\* instance only: a task that is first in the queue of a free lock can acquire
\* it, and a task past the lock can always take its next step, whatever the
\* tasks on the other instance hold; and a step of a call leaves the lock, the
\* queue, the slot and the read count of the other instance unchanged.
C15_PerKeyLocking ==
    /\ [](\A p \in Procs :
             /\ ( /\ pc[p] = "lock"
                  /\ holder[target[p]] = NoProc
                  /\ Head(waiters[target[p]]) = p ) => ENABLED Acquire(p)
             /\ pc[p] = "locked" => ENABLED (MatchSome(p) \/ MatchNone(p))
             /\ pc[p] = "read" => ENABLED (\E f \in Files : ReadDone(p, f)))
    /\ [][\A p \in Procs :
             pc'[p] # pc[p] =>
                 \A k \in Interfaces \ {target'[p]} :
                     /\ holder'[k] = holder[k]
                     /\ waiters'[k] = waiters[k]
                     /\ identifier'[k] = identifier[k]
                     /\ reads'[k] = reads[k]]_vars

\* the locks of both instances are held at once, each by a task reading
C15_Witness ==
    \E p, q \in Procs :
        /\ pc[p] = "read" /\ target[p] = "eth0" /\ holder["eth0"] = p
        /\ pc[q] = "read" /\ target[q] = "wlan0" /\ holder["wlan0"] = q

\* the error is a structured failure status: a tonic::Status with a failure code
IsFailureStatus(e) == e.from = "status" /\ e.status.code \in FailureCodes

IsTrimOf(v, d) ==
    /\ v = <<>> \/ (~IsWhitespace(v[1]) /\ ~IsWhitespace(v[Len(v)]))
    /\ \E a \in 0..Len(d) :
          /\ a + Len(v) <= Len(d)
          /\ SubSeq(d, a + 1, a + Len(v)) = v
          /\ \A j \in (1..a) \cup ((a + Len(v) + 1)..Len(d)) : IsWhitespace(d[j])

\* C17: a call that read the address file and could decode it returned the
\* decoded text without its leading and trailing whitespace, the slot holds
\* that same value, and trimming a stored value leaves it unchanged.
C17_Normalization ==
    /\ \A i \in 1..Len(log) :
          (log[i].read /\ log[i].raw.ok /\ FromUtf8(log[i].raw.val).ok) =>
              /\ log[i].res.tag = "Ok"
              /\ IsTrimOf(log[i].res.identifier, FromUtf8(log[i].raw.val).val)
              /\ identifier[log[i].key] = Some(log[i].res.identifier)
    /\ \A k \in Interfaces :
          identifier[k].some =>
              /\ Trim(identifier[k].val) = identifier[k].val
              /\ IsTrimOf(identifier[k].val, identifier[k].val)

\* the file held U+00A0 before an 'a': "a" was stored, and returned again
\* by the next call without a read
C17_Witness ==
    /\ Len(log) = 2
    /\ log[1].read /\ log[1].raw.val = <<194, 160, 97>>
    /\ log[1].res.identifier = <<97>>
    /\ identifier["eth0"] = Some(<<97>>)
    /\ ~log[2].read /\ log[2].res.identifier = <<97>>

\* the tasks queued for the lock of k
Queued(k) == {waiters[k][j] : j \in 1..Len(waiters[k])}

\* C18: a call that has ended, in whatever way, neither holds the identifier
\* lock nor waits for it: the lock is only ever held by a call in progress
\* past lock().await, and when no call is in progress every lock is free.
C18_LockReleasedOnExit ==
    /\ \A p \in Procs : pc[p] = "idle" =>
          \A k \in Interfaces : holder[k] # p /\ p \notin Queued(k)
    /\ \A k \in Interfaces : holder[k] # NoProc =>
          /\ pc[holder[k]] \in {"locked", "read"}
          /\ target[holder[k]] = k
    /\ (\A p \in Procs : pc[p] = "idle") =>
          \A k \in Interfaces : holder[k] = NoProc /\ waiters[k] = <<>>

\* calls have ended by a dropped read, a decode failure, a stored value and a
\* cache hit, and the lock is free
C18_Witness ==
    /\ \A p \in Procs : pc[p] = "idle"
    /\ holder["eth0"] = NoProc
    /\ \E i \in 1..Len(log) : log[i].res = Dropped /\ log[i].read
    /\ \E i \in 1..Len(log) : log[i].res.tag = "Err" /\ log[i].raw.ok
    /\ \E i \in 1..Len(log) : log[i].res.tag = "Ok" /\ log[i].read
    /\ \E i \in 1..Len(log) : log[i].res.tag = "Ok" /\ ~log[i].read

\* C19: with a fair lock and reads that complete, every call in progress
\* ends: it returns a response or a failure status unless its future is
\* dropped first, whatever the number of callers queued on the instance.
C19_Progress ==
    \A p \in Procs :
        (pc[p] # "idle") ~> (pc[p] = "idle")

\* every task called at once, none was dropped: the first read failed, the
\* second stored the value and the last caller got it from the slot
C19_Witness ==
    /\ Len(log) = NumProcs
    /\ \A p \in Procs : pc[p] = "idle"
    /\ \A i \in 1..Len(log) : log[i].start = 0 /\ log[i].res # Dropped
    /\ log[1].res.tag = "Err" /\ log[1].read
    /\ log[2].res.tag = "Ok" /\ log[2].read
    /\ \A i \in 3..Len(log) : log[i].res.tag = "Ok" /\ ~log[i].read
====
